---- MODULE Spec2Model ----
(***************************************************************************)
(* Model of lib/strategy.js of passport-instagram: the Strategy            *)
(* constructor, Strategy.prototype.userProfile and                         *)
(* Strategy.prototype._convertProfileFields.                               *)
(*                                                                         *)
(* JavaScript strings are TLA+ strings; url.parse, url.format and          *)
(* Array.prototype.join are computed character by character.  JSON.parse   *)
(* is the table JSONparse over the response bodies of the model.           *)
(***************************************************************************)
EXTENDS Integers, Sequences, FiniteSets, TLC

(***************************************************************************)
(* Bounds                                                                  *)
(***************************************************************************)
\* longest profileFields list a configuration supplies
MaxFields == 2
\* number of concurrent authentication attempts on the one strategy
NumAttempts == 2

Attempts == 1..NumAttempts

(***************************************************************************)
(* JavaScript values                                                       *)
(***************************************************************************)
\* the value `undefined` where a string is expected
Undefined == "<undefined>"
\* a null err argument of the engine's callback
NoError == "<null>"

\* String.prototype.indexOf, 1-based; 0 when c does not occur in s
IndexOf(s, c) ==
  LET I == {i \in 1..Len(s) : SubSeq(s, i, i) = c}
  IN IF I = {} THEN 0 ELSE CHOOSE i \in I : \A j \in I : i <= j

\* indexOf from position `from` on (1-based); 0 when c does not occur there
IndexFrom(s, c, from) ==
  LET I == {i \in from..Len(s) : SubSeq(s, i, i) = c}
  IN IF I = {} THEN 0 ELSE CHOOSE i \in I : \A j \in I : i <= j

\* search.replace(/#/g, '%23') of url.format
RECURSIVE ReplaceHash(_)
ReplaceHash(s) ==
  IF s = "" THEN ""
  ELSE (IF Head(s) = "#" THEN "%23" ELSE Head(s)) \o ReplaceHash(Tail(s))

(***************************************************************************)
(* url.parse / url.format (Node's legacy URL API) on absolute URLs         *)
(* scheme://host[/path][?query][#hash] written in lower case and without   *)
(* characters that url.parse escapes.                                      *)
(***************************************************************************)
\* url.parse(s): the hash starts at the first '#', the search at the first
\* '?' before it; a slashed URL with a host and no path gets pathname '/'
uriParse(s) ==
  LET h     == IndexOf(s, "#")
      hash  == IF h = 0 THEN "" ELSE SubSeq(s, h, Len(s))
      rest  == IF h = 0 THEN s ELSE SubSeq(s, 1, h - 1)
      q     == IndexOf(rest, "?")
      srch  == IF q = 0 THEN "" ELSE SubSeq(rest, q, Len(rest))
      front == IF q = 0 THEN rest ELSE SubSeq(rest, 1, q - 1)
      c     == IndexOf(front, ":")
      p     == IndexFrom(front, "/", c + 3)
  IN [ origin   |-> IF p = 0 THEN front ELSE SubSeq(front, 1, p - 1),
       pathname |-> IF p = 0 THEN "/" ELSE SubSeq(front, p, Len(front)),
       search   |-> srch,
       hash     |-> hash ]

\* url.format(u): a search that does not start with '?' gets one; '#' inside
\* the search is escaped
uriFormat(u) ==
  LET s0 == IF u.search # "" /\ Head(u.search) # "?"
            THEN "?" \o u.search ELSE u.search
  IN u.origin \o u.pathname \o ReplaceHash(s0) \o u.hash

(***************************************************************************)
(* Strategy.prototype._convertProfileFields                                *)
(***************************************************************************)
\* own keys of the object literal `map`
mapKeys == {"id", "username", "account_type", "media_count"}

\* the own properties of `map`
map == [k \in mapKeys |-> k]

\* among the property names every object literal inherits from
\* Object.prototype: the lookup map[f] finds the built-in function
ObjectPrototypeFunctions == {"constructor", "toString", "valueOf", "hasOwnProperty"}

\* String(f) for an inherited built-in function f, as Array.prototype.join
\* renders it
FunctionSource(k) ==
  "function " \o (IF k = "constructor" THEN "Object" ELSE k) \o "() { [native code] }"

\* what forEach's callback pushes for the entry f: map[f] when the lookup
\* map[f] is not undefined (own or inherited property), else f itself
pushed(f) ==
  IF f \in mapKeys THEN map[f]
  ELSE IF f \in ObjectPrototypeFunctions THEN FunctionSource(f)
  ELSE f

\* Array.prototype.join(',')
RECURSIVE join(_)
join(fields) ==
  IF fields = <<>> THEN ""
  ELSE IF Len(fields) = 1 THEN fields[1]
  ELSE fields[1] \o "," \o join(Tail(fields))

_convertProfileFields(profileFields) ==
  join([i \in 1..Len(profileFields) |-> pushed(profileFields[i])])

(***************************************************************************)
(* Strategy constructor                                                    *)
(***************************************************************************)
\* options[k] || dflt for a string option: an absent key reads as undefined,
\* and undefined and '' are both falsy
OrDefault(options, k, dflt) ==
  IF k \in DOMAIN options /\ options[k] # "" THEN options[k] ELSE dflt

\* a defaulting that also replaces a supplied empty list
FieldsOrDefaultIfEmpty(options) ==
  IF "profileFields" \in DOMAIN options /\ options.profileFields # <<>>
  THEN options.profileFields
  ELSE <<"id", "username">>

\* options.profileFields || ['id', 'username']: every array, the empty one
\* included, is truthy
FieldsOrDefault(options) ==
  IF "profileFields" \in DOMAIN options THEN options.profileFields
  ELSE <<"id", "username">>

\* the fields the constructor sets, for `options` a record holding any subset
\* of the keys authorizationURL, tokenURL, profileURL, profileFields
\* (options = undefined is the record with no key)
Strategy(options) ==
  [ authorizationURL |-> OrDefault(options, "authorizationURL",
                                   "https://api.instagram.com/oauth/authorize/"),
    tokenURL         |-> OrDefault(options, "tokenURL",
                                   "https://api.instagram.com/oauth/access_token"),
    name             |-> "instagram",
    _profileURL      |-> OrDefault(options, "profileURL",
                                   "https://graph.instagram.com/me"),
    _profileFields   |-> FieldsOrDefault(options) ]

(***************************************************************************)
(* Strategy.prototype.userProfile: the URL handed to this._oauth2.get      *)
(***************************************************************************)
\* a line 79 that overwrites the search the endpoint came with
searchOverwritten(search, fields) ==
  IF fields # "" THEN "fields=" \o fields ELSE search

\* url.search after line 79, given the parsed search and the converted fields
searchWithFields(search, fields) ==
  IF fields # ""
  THEN (IF search # "" THEN search \o "&" ELSE "") \o "fields=" \o fields
  ELSE search

profileRequestURL(self) ==
  LET url    == uriParse(self._profileURL)
      fields == _convertProfileFields(self._profileFields)
  IN uriFormat([url EXCEPT !.search = searchWithFields(url.search, fields)])

(***************************************************************************)
(* The callback userProfile passes to this._oauth2.get                     *)
(***************************************************************************)
\* keys of a provider document
DocKeys == {"id", "username", "full_name", "first_name", "last_name"}

\* a decoded object holding the keys S
Doc(S) ==
  [ type  |-> "object",
    props |-> [k \in S |-> CASE k = "id"         -> "42"
                             [] k = "username"   -> "alice"
                             [] k = "full_name"  -> "Alice A"
                             [] k = "first_name" -> "Alice"
                             [] k = "last_name"  -> "A"] ]

\* a decoded value that is no object with own keys
NonObject(t) == [type |-> t, props |-> <<>>]

\* the result of a JSON.parse that throws
ParseThrows == NonObject("SyntaxError")

\* response bodies the engine hands over; Undefined is a missing body
Bodies ==
  { "{\"id\":\"42\",\"username\":\"alice\",\"full_name\":\"Alice A\",\"first_name\":\"Alice\",\"last_name\":\"A\"}",
    "{\"id\":\"42\",\"username\":\"alice\"}",
    "{}", "[]", "42", "null", "not json", Undefined }

\* JSON.parse(body) on Bodies
JSONparse(body) ==
  CASE body = "{\"id\":\"42\",\"username\":\"alice\",\"full_name\":\"Alice A\",\"first_name\":\"Alice\",\"last_name\":\"A\"}"
         -> Doc(DocKeys)
    [] body = "{\"id\":\"42\",\"username\":\"alice\"}" -> Doc({"id", "username"})
    [] body = "{}"   -> Doc({})
    [] body = "[]"   -> NonObject("array")
    [] body = "42"   -> NonObject("number")
    [] body = "null" -> NonObject("null")
    [] OTHER         -> ParseThrows

\* json.k for a json that is not null: the own property, else undefined
Get(json, k) == IF k \in DOMAIN json.props THEN json.props[k] ELSE Undefined

\* error values
NoErr == [name |-> "null", message |-> "", oauthError |-> NoError]

InternalOAuthError(message, err) ==
  [name |-> "InternalOAuthError", message |-> message, oauthError |-> err]

\* the SyntaxError JSON.parse throws
SyntaxError == [name |-> "SyntaxError", message |-> "Unexpected token", oauthError |-> NoError]

\* the TypeError a property read of null throws
TypeError == [name |-> "TypeError", message |-> "Cannot read properties of null", oauthError |-> NoError]

\* the exception a throwing continuation raises
DoneError == [name |-> "Error", message |-> "thrown by done", oauthError |-> NoError]

\* no profile argument
NoProfile == [provider |-> Undefined]

\* a normalization with the two name parts exchanged
normalizeSwapped(json, body) ==
  [ provider    |-> "instagram",
    id          |-> Get(json, "id"),
    displayName |-> Get(json, "full_name"),
    name        |-> [ familyName |-> Get(json, "first_name"),
                      givenName  |-> Get(json, "last_name") ],
    username    |-> Get(json, "username"),
    _raw        |-> body,
    _json       |-> json ]

\* lines 89-97: the profile built from the decoded json and the body text
normalize(json, body) ==
  [ provider    |-> "instagram",
    id          |-> Get(json, "id"),
    displayName |-> Get(json, "full_name"),
    name        |-> [ familyName |-> Get(json, "last_name"),
                      givenName  |-> Get(json, "first_name") ],
    username    |-> Get(json, "username"),
    _raw        |-> body,
    _json       |-> json ]

\* one invocation of done
DoneCall(err, profile) == [err |-> err, profile |-> profile]

\* the exception that leaves the callback when done throws in a place where
\* nothing catches it, or after the catch block has run
uncaught(doneThrows) == IF doneThrows THEN DoneError ELSE NoErr

\* a fetchFailed that loses the engine's error
fetchFailedNoCause(err, doneThrows) ==
  [ calls   |-> <<DoneCall(InternalOAuthError("failed to fetch user profile", NoError),
                           NoProfile)>>,
    parsed  |-> FALSE,
    escaped |-> uncaught(doneThrows) ]

\* line 84: return done(new InternalOAuthError(..., err)), outside the try
fetchFailed(err, doneThrows) ==
  [ calls   |-> <<DoneCall(InternalOAuthError("failed to fetch user profile", err),
                           NoProfile)>>,
    parsed  |-> FALSE,
    escaped |-> uncaught(doneThrows) ]

\* a catch block that hands over what was built so far along with the error
caughtWithPartial(e, body, doneThrows) ==
  [ calls   |-> <<DoneCall(e, [provider |-> "instagram", _raw |-> body])>>,
    parsed  |-> TRUE,
    escaped |-> uncaught(doneThrows) ]

\* lines 100-102, reached by an exception e thrown before done was called:
\* done(e)
caught(e, body, doneThrows) ==
  [ calls   |-> <<DoneCall(e, NoProfile)>>,
    parsed  |-> TRUE,
    escaped |-> uncaught(doneThrows) ]

\* lines 86-102: JSON.parse, the property reads of json (which throw on
\* null), done(null, profile), and the catch block, which also catches what
\* done(null, profile) throws and then calls done a second time
tryBlock(body, doneThrows) ==
  LET json == JSONparse(body)
  IN IF json = ParseThrows THEN caught(SyntaxError, body, doneThrows)
     ELSE IF json.type = "null" THEN caught(TypeError, body, doneThrows)
     ELSE IF doneThrows
     THEN [ calls   |-> <<DoneCall(NoErr, normalize(json, body)),
                          DoneCall(DoneError, NoProfile)>>,
            parsed  |-> TRUE,
            escaped |-> DoneError ]
     ELSE [ calls   |-> <<DoneCall(NoErr, normalize(json, body))>>,
            parsed  |-> TRUE,
            escaped |-> NoErr ]

\* lines 84-102 for the engine's (err, body) and a continuation that throws
\* whenever it is called iff doneThrows: the invocations of done in order,
\* whether JSON.parse ran, and the exception leaving the callback
callback(err, body, doneThrows) ==
  IF err # NoError THEN fetchFailed(err, doneThrows)
  ELSE tryBlock(body, doneThrows)

(***************************************************************************)
(* Inputs                                                                  *)
(***************************************************************************)
\* profile endpoints a configuration supplies ('' is falsy: the default is
\* taken)
Endpoints ==
  { "",
    "https://graph.instagram.com/me",
    "https://graph.instagram.com/me?a=1",
    "https://graph.instagram.com/me?a=1&b=2",
    "https://graph.instagram.com/me?",
    "https://graph.instagram.com/me?fields=x",
    "https://graph.instagram.com/me?a=1#top",
    "https://graph.instagram.com/me#top",
    "https://graph.instagram.com?a=1" }

\* entries of a profileFields list
FieldNames == {"id", "photos_count", "constructor", ""}

\* the lists of at most n entries
FieldLists(n) == UNION {[1..k -> FieldNames] : k \in 0..n}

\* the records with the key k bound to a value of S, and the one without k
Optional(k, S) == {<<>>} \cup {k :> v : v \in S}

\* configuration objects: any subset of the four keys
AllOptions ==
  { a @@ t @@ u @@ f :
      a \in Optional("authorizationURL", {"https://example.net/authorize"}),
      t \in Optional("tokenURL", {"https://example.net/token"}),
      u \in Optional("profileURL", Endpoints),
      f \in Optional("profileFields", FieldLists(MaxFields)) }

\* the configurations of the runs with concurrent attempts
SomeOptions ==
  { <<>>,
    ("profileURL" :> "https://graph.instagram.com/me?a=1")
      @@ ("profileFields" :> <<"id", "photos_count">>) }

AccessTokens == {"token-A", "token-B"}

\* errors the OAuth2 engine reports
EngineErrors == {"ECONNREFUSED"}

\* what the engine passes to the callback: an error (with or without a body), or
\* no error and a body
Responses ==
  {[err |-> e, body |-> b] :
      e \in EngineErrors, b \in {Undefined, "{\"id\":\"42\",\"username\":\"alice\"}"}}
  \cup {[err |-> NoError, body |-> b] : b \in Bodies}

(***************************************************************************)
(* State                                                                   *)
(***************************************************************************)
VARIABLES
  options,      \* the configuration object the constructor was given
  self,         \* the strategy: name, endpoints, _profileURL, _profileFields
  pc,           \* per attempt: "idle", "waiting" (GET outstanding), "done"
  accessToken,  \* per attempt: the token userProfile was called with
  doneThrows,   \* per attempt: whether its continuation throws when called
  gets,         \* per attempt: the engine GETs issued, as <<url, token>> records
  response,     \* per attempt: what the engine passed to the callback
  calls,        \* per attempt: the invocations of done, in order
  parsed,       \* per attempt: whether JSON.parse was invoked
  escaped       \* per attempt: the exception that left the callback

vars == <<options, self, pc, accessToken, doneThrows, gets, response, calls,
          parsed, escaped>>

NoResponse == [err |-> NoError, body |-> Undefined]

\* the state right after new Strategy(o, verify)
Constructed(o) ==
  /\ options = o
  /\ self = Strategy(o)
  /\ pc = [a \in Attempts |-> "idle"]
  /\ accessToken = [a \in Attempts |-> Undefined]
  /\ doneThrows = [a \in Attempts |-> FALSE]
  /\ gets = [a \in Attempts |-> <<>>]
  /\ response = [a \in Attempts |-> NoResponse]
  /\ calls = [a \in Attempts |-> <<>>]
  /\ parsed = [a \in Attempts |-> FALSE]
  /\ escaped = [a \in Attempts |-> NoErr]

Init == \E o \in SomeOptions : Constructed(o)

InitConfig == \E o \in AllOptions : Constructed(o)

\* userProfile(accessToken, done), lines 75-83: build the URL and hand it
\* with the token to this._oauth2.get
userProfile(a) ==
  /\ pc[a] = "idle"
  /\ \E tok \in AccessTokens, thr \in BOOLEAN :
       /\ accessToken' = [accessToken EXCEPT ![a] = tok]
       /\ doneThrows' = [doneThrows EXCEPT ![a] = thr]
       /\ gets' = [gets EXCEPT ![a] =
                     Append(@, [url |-> profileRequestURL(self), accessToken |-> tok])]
  /\ pc' = [pc EXCEPT ![a] = "waiting"]
  /\ UNCHANGED <<options, self, response, calls, parsed, escaped>>

\* a callback that issues the GET again when the fetch or the decode failed
getCallbackRetry(a) ==
  /\ pc[a] = "waiting"
  /\ \E r \in Responses :
       LET out    == callback(r.err, r.body, doneThrows[a])
           failed == out.calls[1].err # NoErr
       IN /\ response' = [response EXCEPT ![a] = r]
          /\ calls' = [calls EXCEPT ![a] = IF failed THEN <<>> ELSE out.calls]
          /\ parsed' = [parsed EXCEPT ![a] = out.parsed]
          /\ escaped' = [escaped EXCEPT ![a] = out.escaped]
          /\ gets' = [gets EXCEPT ![a] = IF failed THEN Append(@, @[1]) ELSE @]
          /\ pc' = [pc EXCEPT ![a] = IF failed /\ Len(gets[a]) < 2 THEN "waiting" ELSE "done"]
  /\ UNCHANGED <<options, self, accessToken, doneThrows>>

\* a strategy that keeps the continuation in one slot shared by all attempts:
\* the outcome goes to the attempt that called userProfile last (here the
\* waiting attempt of largest index)
getCallbackShared(a) ==
  /\ pc[a] = "waiting"
  /\ \E r \in Responses :
       LET out == callback(r.err, r.body, doneThrows[a])
           b   == CHOOSE x \in Attempts :
                    /\ pc[x] = "waiting"
                    /\ \A y \in Attempts : pc[y] = "waiting" => y <= x
       IN /\ response' = [response EXCEPT ![a] = r]
          /\ calls' = [calls EXCEPT ![b] = @ \o out.calls]
          /\ parsed' = [parsed EXCEPT ![a] = out.parsed]
          /\ escaped' = [escaped EXCEPT ![a] = out.escaped]
  /\ pc' = [pc EXCEPT ![a] = "done"]
  /\ UNCHANGED <<options, self, accessToken, doneThrows, gets>>

\* the engine completes attempt a's GET and runs the callback, lines 83-103
getCallback(a) ==
  /\ pc[a] = "waiting"
  /\ \E r \in Responses :
       LET out == callback(r.err, r.body, doneThrows[a])
       IN /\ response' = [response EXCEPT ![a] = r]
          /\ calls' = [calls EXCEPT ![a] = out.calls]
          /\ parsed' = [parsed EXCEPT ![a] = out.parsed]
          /\ escaped' = [escaped EXCEPT ![a] = out.escaped]
  /\ pc' = [pc EXCEPT ![a] = "done"]
  /\ UNCHANGED <<options, self, accessToken, doneThrows, gets>>

Next == \E a \in Attempts : userProfile(a) \/ getCallback(a)

Spec == Init /\ [][Next]_vars

\* one attempt at a time, over every configuration
NextConfig == \E a \in {1} : userProfile(a) \/ getCallback(a)

SpecConfig == InitConfig /\ [][NextConfig]_vars

(***************************************************************************)
(* Properties                                                              *)
(***************************************************************************)
\* whether the engine's response to attempt a reported an error
FetchErrored(a) == pc[a] = "done" /\ response[a].err # NoError

\* whether attempt a got a body without error and JSON.parse threw on it
DecodeErrored(a) ==
  pc[a] = "done" /\ response[a].err = NoError /\ JSONparse(response[a].body) = ParseThrows

\* whether attempt a got a body without error that JSON.parse decoded
Decoded(a) ==
  pc[a] = "done" /\ response[a].err = NoError /\ JSONparse(response[a].body) # ParseThrows

\* C1: whenever the engine reports an error, done receives exactly an
\* InternalOAuthError 'failed to fetch user profile' whose cause is the
\* engine's error, with no profile, and JSON.parse was not invoked
C1_FetchFailedWrapsCause ==
  \A a \in Attempts : FetchErrored(a) =>
    /\ Len(calls[a]) = 1
    /\ calls[a][1].err.name = "InternalOAuthError"
    /\ calls[a][1].err.message = "failed to fetch user profile"
    /\ calls[a][1].err.oauthError = response[a].err
    /\ calls[a][1].profile = NoProfile
    /\ ~parsed[a]

\* an engine error arrived together with a body that would have decoded
C1_Witness ==
  \E a \in Attempts :
    /\ FetchErrored(a)
    /\ JSONparse(response[a].body) # ParseThrows
    /\ Len(calls[a]) = 1

\* C2: whenever the engine reports no error and JSON.parse throws on the
\* body, done receives the parse error, once, and no invocation of done
\* carries a profile
C2_DecodeFailedNoProfile ==
  \A a \in Attempts : DecodeErrored(a) =>
    /\ Len(calls[a]) = 1
    /\ calls[a][1].err = SyntaxError
    /\ parsed[a]
    /\ \A i \in 1..Len(calls[a]) : calls[a][i].profile = NoProfile

\* the body 'not json' was received without an engine error
C2_Witness ==
  \E a \in Attempts :
    DecodeErrored(a) /\ response[a].body = "not json" /\ calls[a] # <<>>

\* C3: every error handed to done is the fetch error or the parse error, and
\* every body that decodes ends in a profile and no error
C3_OnlyTwoErrorKinds ==
  \A a \in Attempts :
    /\ \A i \in 1..Len(calls[a]) :
         calls[a][i].err # NoErr =>
           \/ FetchErrored(a) /\ calls[a][i].err.name = "InternalOAuthError"
           \/ DecodeErrored(a) /\ calls[a][i].err = SyntaxError
    /\ Decoded(a) =>
         \A i \in 1..Len(calls[a]) :
           calls[a][i].err = NoErr /\ calls[a][i].profile # NoProfile

\* C6: a body that decodes to an object yields a profile with provider
\* instagram, id, username, displayName, name.givenName and name.familyName
\* read from id, username, full_name, first_name and last_name (undefined
\* where the key is missing), _raw the body text and _json the decoded object
C6_NormalizedProfile ==
  \A a \in Attempts :
    (Decoded(a) /\ JSONparse(response[a].body).type = "object") =>
      LET json == JSONparse(response[a].body)
          p    == calls[a][1].profile
          F(k) == IF k \in DOMAIN json.props THEN json.props[k] ELSE Undefined
      IN /\ calls[a][1].err = NoErr
         /\ p.provider = "instagram"
         /\ p.id = F("id")
         /\ p.username = F("username")
         /\ p.displayName = F("full_name")
         /\ p.name.givenName = F("first_name")
         /\ p.name.familyName = F("last_name")
         /\ p._raw = response[a].body
         /\ p._json = json
         /\ (DOMAIN json.props = DocKeys =>
               /\ <<p.id, p.username, p.displayName>> = <<"42", "alice", "Alice A">>
               /\ p.name = [givenName |-> "Alice", familyName |-> "A"])

\* a body with id and username only was normalized: the name parts are absent
C6_Witness ==
  \E a \in Attempts :
    /\ Decoded(a)
    /\ response[a].body = "{\"id\":\"42\",\"username\":\"alice\"}"
    /\ calls[a][1].profile.name.givenName = Undefined
    /\ calls[a][1].profile.id = "42"

\* C8: an attempt has issued exactly one GET from the call of userProfile on,
\* also after its fetch or decode failed, and a failed fetch or decode ends
\* the attempt with a single error handed to done
C8_ExactlyOneGet ==
  \A a \in Attempts :
    /\ Len(gets[a]) = (IF pc[a] = "idle" THEN 0 ELSE 1)
    /\ (FetchErrored(a) \/ DecodeErrored(a)) =>
         /\ pc[a] = "done"
         /\ Len(calls[a]) = 1
         /\ calls[a][1].err # NoErr

\* one attempt ended in a failed fetch and another in a failed decode
C8_Witness ==
  \E a, b \in Attempts :
    /\ FetchErrored(a) /\ Len(gets[a]) = 1
    /\ DecodeErrored(b) /\ Len(gets[b]) = 1

\* C9: the strategy's fields stay what the constructor set; each attempt's GET
\* carries its own token, and what its continuation received is the callback's
\* result on its own response; an attempt without a response has received
\* nothing
C9_AttemptsIndependent ==
  /\ self = Strategy(options)
  /\ \A a \in Attempts :
       /\ pc[a] # "idle" =>
            gets[a] = <<[url |-> profileRequestURL(Strategy(options)),
                         accessToken |-> accessToken[a]]>>
       /\ pc[a] = "done" =>
            calls[a] = callback(response[a].err, response[a].body, doneThrows[a]).calls
       /\ pc[a] # "done" => calls[a] = <<>>

\* two attempts with different tokens completed with different outcomes
C9_Witness ==
  \E a, b \in Attempts :
    /\ pc[a] = "done" /\ pc[b] = "done"
    /\ accessToken[a] # accessToken[b]
    /\ FetchErrored(a) /\ Decoded(b)
    /\ calls[a] # calls[b]

\* C10: once the engine's GET has completed, done has been invoked exactly
\* once, also when done throws
C10_DoneExactlyOnce ==
  \A a \in Attempts : pc[a] = "done" => Len(calls[a]) = 1

(***************************************************************************)
(* Properties of the configuration and of the request URL, over every     *)
(* configuration (SpecConfig)                                              *)
(***************************************************************************)
\* the FieldMap name of an entry, or the entry itself when it is not a key
MappedName(f) ==
  CASE f = "id"           -> "id"
    [] f = "username"     -> "username"
    [] f = "account_type" -> "account_type"
    [] f = "media_count"  -> "media_count"
    [] OTHER              -> f

\* the names of a list, in order, separated by commas
RECURSIVE CommaJoined(_)
CommaJoined(l) ==
  IF Len(l) = 0 THEN ""
  ELSE IF Len(l) = 1 THEN MappedName(l[1])
  ELSE CommaJoined(SubSeq(l, 1, Len(l) - 1)) \o "," \o MappedName(l[Len(l)])

\* the number of commas of a string
Commas(s) == Cardinality({i \in 1..Len(s) : SubSeq(s, i, i) = ","})

\* C4: _convertProfileFields returns the comma-joined FieldMap names of the
\* entries, each unmapped entry as itself, in input order, with as many
\* entries as the input; [id, photos_count] yields "id,photos_count"
C4_ConvertMapsInOrder ==
  LET l == self._profileFields
      r == _convertProfileFields(l)
  IN /\ r = CommaJoined(l)
     /\ (l # <<>> => Commas(r) = Len(l) - 1)
     /\ (l = <<"id", "photos_count">> => r = "id,photos_count")

\* the text between the first '?' and the first '#' after it split at '&';
\* no parameter when the URL has no '?' before its hash
RECURSIVE SplitAmp(_)
SplitAmp(s) ==
  LET i == IndexOf(s, "&")
  IN IF i = 0 THEN <<s>>
     ELSE <<SubSeq(s, 1, i - 1)>> \o SplitAmp(SubSeq(s, i + 1, Len(s)))

BeforeHash(u) == IF IndexOf(u, "#") = 0 THEN u ELSE SubSeq(u, 1, IndexOf(u, "#") - 1)

HashOf(u) == IF IndexOf(u, "#") = 0 THEN "" ELSE SubSeq(u, IndexOf(u, "#"), Len(u))

HasQuery(u) == IndexOf(BeforeHash(u), "?") # 0

QueryParams(u) ==
  IF HasQuery(u)
  THEN SplitAmp(SubSeq(BeforeHash(u), IndexOf(BeforeHash(u), "?") + 1, Len(BeforeHash(u))))
  ELSE <<>>

\* C5: the query parameters of the URL handed to the engine are those of the
\* profile endpoint, unchanged and in order, followed by fields=<converted
\* fields> exactly when the converted field string is not empty; the hash of
\* the endpoint is kept
C5_FieldsParameterAppended ==
  \A a \in Attempts : pc[a] # "idle" =>
    LET U == gets[a][1].url
        E == self._profileURL
        V == _convertProfileFields(self._profileFields)
    IN /\ QueryParams(U) =
            QueryParams(E) \o (IF V # "" THEN <<"fields=" \o V>> ELSE <<>>)
       /\ HashOf(U) = HashOf(E)
       /\ (self._profileFields = <<>> => QueryParams(U) = QueryParams(E))
       /\ (~HasQuery(E) /\ V # "" => QueryParams(U) = <<"fields=" \o V>>)

\* a GET was issued for an endpoint with two parameters and a hash-free
\* query, with a non-empty field list
C5_Witness ==
  \E a \in Attempts :
    /\ pc[a] # "idle"
    /\ self._profileURL = "https://graph.instagram.com/me?a=1&b=2"
    /\ self._profileFields = <<"id", "photos_count">>
    /\ gets[a][1].url = "https://graph.instagram.com/me?a=1&b=2&fields=id,photos_count"

\* C7 as stated: after construction the field list is never empty and holds no
\* empty string, and without options the strategy has the documented defaults
C7_FieldsNeverEmpty ==
  /\ self._profileFields # <<>>
  /\ \A i \in 1..Len(self._profileFields) : self._profileFields[i] # ""
  /\ (DOMAIN options = {} =>
        /\ self._profileFields = <<"id", "username">>
        /\ self._profileURL = "https://graph.instagram.com/me")

\* C7: after construction the field list is the supplied list as supplied
\* (the empty list stays empty), and [id, username] when none was supplied;
\* without options the strategy has the documented default endpoints
C7_FieldsSuppliedOrDefault ==
  /\ ("profileFields" \in DOMAIN options => self._profileFields = options.profileFields)
  /\ ("profileFields" \notin DOMAIN options => self._profileFields = <<"id", "username">>)
  /\ (DOMAIN options = {} =>
        /\ self._profileFields = <<"id", "username">>
        /\ self._profileURL = "https://graph.instagram.com/me"
        /\ self.authorizationURL = "https://api.instagram.com/oauth/authorize/"
        /\ self.tokenURL = "https://api.instagram.com/oauth/access_token"
        /\ self.name = "instagram")

\* a strategy constructed with the empty list, whose request carries no
\* fields parameter
C7_Witness ==
  /\ "profileFields" \in DOMAIN options
  /\ options.profileFields = <<>>
  /\ self._profileFields = <<>>
  /\ pc[1] # "idle"
  /\ gets[1][1].url = self._profileURL

====
